---- MODULE Spec2Model ----
(***************************************************************************)
(* The per-connection session loop of app/websocket/handler.py             *)
(* (handle_websocket and _process_user_input), the ConnectionManager       *)
(* registry, and the services the loop awaits (speech-to-text, text        *)
(* correction, summarization, retrieval, generation, synthesis, upload).   *)
(*                                                                         *)
(* Text is a sequence of one-character strings.  The external services     *)
(* (LLM, Whisper, vector store, TTS engine, object storage, the client)    *)
(* answer nondeterministically from small sets; what the repository's      *)
(* code does with each answer is translated from the code.                 *)
(***************************************************************************)
EXTENDS Integers, Sequences, FiniteSets, TLC

\* ------------------------------------------------------------------ bounds
\* Client messages one session receives before the client can only close.
MaxTurns == 1
\* Fragments the generation service yields at most to one session.
MaxFragments == 2
\* Messages a transport carries at most in the registry specification.
MaxWire == 2
\* Characters by which a generated summary exceeds the summary limit at most.
MaxOverflow == 2
\* Length of a reply text handed to the emotion extraction at most.
MaxReplyLen == 3

\* ------------------------------------------------------- program constants
\* get_recent_messages(db, conversation_id, 10) and message_history[-10:]
HistoryLimit == 10
\* response.status_code == 200
StatusOK == 200

\* ------------------------------------------------------------ value sets
SessionIds == {"s1", "s2", "s3"}
\* The session whose handler the main specification runs.
SELF == "s1"
None == "None"
NoText == <<>>
Space == " "

\* Values of client "content" for a text message.
RawTexts == {NoText, <<"h">>}
\* What the correction LLM may answer (before .strip()).
CorrectionReplies == {NoText, <<Space>>, <<"H">>}
\* What Whisper's joined segments may be (before .strip()).
SttOutputs == {NoText, <<Space>>, <<"h">>}
\* The fixed text _transcribe_audio returns when the model is not loaded.
SttUnavailable == <<"n", "a">>
\* The text of the k-th fragment the generation service yields to the
\* session: the handler never looks into a fragment, so fragments that all
\* differ show every loss, duplication and reordering.
FragmentTexts == << <<"a">>, <<"*">>, <<"c">>, <<"d">>, <<"e">>, <<"f">> >>
\* Client messages: type, whether "content" is present, its value, and
\* whether "data" is valid base64.
ClientMessages ==
    { [type |-> "text", has_content |-> TRUE, content |-> c, b64_ok |-> TRUE] : c \in RawTexts }
    \cup { [type |-> "text", has_content |-> FALSE, content |-> NoText, b64_ok |-> TRUE] }
    \cup { [type |-> "audio", has_content |-> FALSE, content |-> NoText, b64_ok |-> b] : b \in BOOLEAN }
    \cup { [type |-> "load_history", has_content |-> FALSE, content |-> NoText, b64_ok |-> TRUE] }
NoMessage == [type |-> "none", has_content |-> FALSE, content |-> NoText, b64_ok |-> TRUE]

\* ------------------------------------------------------------- variables
VARIABLES
    active_connections, \* ConnectionManager.active_connections (its keys)
    sock,               \* per transport: "open" or "closed" (closed: send_json fails)
    wire,               \* per transport: the messages send_json delivered, in order
    last_call,          \* the last ConnectionManager call and whether it raised
    pc,                 \* position of handle_websocket
    exc,                \* origin of the exception that left the try block
    messages,           \* committed Message rows of the conversation, in order
    message_history,    \* the handler's rolling history list
    data,               \* the client message being handled
    user_content,
    user_audio_url,
    context_summary,
    retrieved_chunks,
    ai_content,
    ai_audio_url,
    enhanced_prompt,    \* the system prompt handed to the generator
    llm_messages,       \* the history entries handed to the generator
    character,          \* the session's Character (use_knowledge_base)
    stt_model,          \* "loaded" or "none" (STTService.model is None)
    turn,               \* number of client messages received
    frags,              \* per turn: the fragments the generation stream yielded
    transcript,         \* per turn: what _transcribe_audio returned and why
    calls,              \* external calls made in the current turn
    search_failed,      \* the knowledge search failed in the current turn
    closed_at,          \* the phase the handler was in when the transport closed
    failures,           \* the service calls that raised in the current turn ("tts":
                        \* the synthesis engine or the upload of the reply's audio)
    linked_documents,   \* what the query of line 319 found in the current turn
    summarized,         \* the (role, turn) of the rows read at line 305 in the current turn
    service_call,       \* the last call of a service function made on its own
    sessions,           \* per session id: its handler's position, conversation, turn
    table               \* the rows of the messages table, in commit order

connVars == <<active_connections, sock, wire, last_call>>
dbVars == <<messages, message_history>>
turnVars == <<data, user_content, user_audio_url, context_summary,
              retrieved_chunks, ai_content, ai_audio_url, enhanced_prompt,
              llm_messages>>
envVars == <<character, stt_model>>
ghostVars == <<turn, frags, transcript, calls, search_failed, closed_at,
               failures, linked_documents, summarized>>
fnVars == <<service_call, sessions, table>>
vars == <<connVars, pc, exc, dbVars, turnVars, envVars, ghostVars, fnVars>>

\* --------------------------------------------------------------- helpers
RECURSIVE LStrip(_)
LStrip(s) == IF s # <<>> /\ Head(s) = Space THEN LStrip(Tail(s)) ELSE s

RECURSIVE RStrip(_)
RStrip(s) ==
    IF s # <<>> /\ s[Len(s)] = Space THEN RStrip(SubSeq(s, 1, Len(s) - 1)) ELSE s

\* str.strip()
Strip(s) == RStrip(LStrip(s))

RECURSIVE Concat(_)
Concat(ss) == IF ss = <<>> THEN <<>> ELSE Head(ss) \o Concat(Tail(ss))

DigitChars == <<"0", "1", "2", "3", "4", "5", "6", "7", "8", "9">>
\* str(n) for a natural number
RECURSIVE Decimal(_)
Decimal(n) == IF n < 10 THEN <<DigitChars[n + 1]>> ELSE Decimal(n \div 10) \o <<DigitChars[(n % 10) + 1]>>

\* seq[-n:]
LastN(s, n) == IF Len(s) <= n THEN s ELSE SubSeq(s, Len(s) - n + 1, Len(s))

\* The events of type ty sent in turn t, in the order of w.
SelectEvents(w, ty, t) == SelectSeq(w, LAMBDA e : e.type = ty /\ e.turn = t)

\* Variant of Row that stores no audio URL.
RowWithoutAudio(role, content, url, summary, t) ==
    [role |-> role, content |-> content, audio_url |-> None,
     context_prompt |-> summary, turn |-> t]

Event(ty, content, url) == [type |-> ty, content |-> content, url |-> url, turn |-> turn]
Row(role, content, url, summary, t) ==
    [role |-> role, content |-> content, audio_url |-> url,
     context_prompt |-> summary, turn |-> t]
Entry(role, content) == [role |-> role, content |-> content]

\* ---------------------------------------------------- ConnectionManager
\* connect: await websocket.accept(); active_connections[session_id] = websocket
connect(session_id) == active_connections \cup {session_id}

\* Variant of disconnect that leaves the entry in place.
disconnect_keeps_entry(session_id) == active_connections

\* disconnect: if session_id in active_connections: del ...
disconnect(session_id) == active_connections \ {session_id}

\* Variant of send_json that puts the message before those already sent.
send_json_first(w, ws, message) ==
    IF sock[ws] = "open"
    THEN [wire |-> [w EXCEPT ![ws] = <<message>> \o @], raised |-> FALSE]
    ELSE [wire |-> w, raised |-> TRUE]

\* websocket.send_json on the framework's socket, w being what the transports
\* have carried so far: delivers on an open transport, raises on a closed one.
send_json(w, ws, message) ==
    IF sock[ws] = "open"
    THEN [wire |-> [w EXCEPT ![ws] = Append(@, message)], raised |-> FALSE]
    ELSE [wire |-> w, raised |-> TRUE]

\* Variant of send_message without the registry test.
send_message_unguarded(w, message, session_id) == send_json(w, session_id, message)

\* Variant of send_message that swallows the transport's failure.
send_message_absorbing(w, message, session_id) ==
    IF session_id \in active_connections
    THEN [wire |-> send_json(w, session_id, message).wire, raised |-> FALSE]
    ELSE [wire |-> w, raised |-> FALSE]

\* send_message: if session_id in active_connections: await websocket.send_json(message)
send_message(w, message, session_id) ==
    IF session_id \in active_connections
    THEN send_json(w, session_id, message)
    ELSE [wire |-> w, raised |-> FALSE]

\* ----------------------------------------------------------- services
CorrectionOutcomes ==
    { [ok |-> FALSE, text |-> NoText] }
    \cup { [ok |-> TRUE, text |-> t] : t \in CorrectionReplies }

\* Variant of correct_text that returns nothing when the call raised.
correct_text_failing(raw_text, outcome) ==
    IF ~outcome.ok THEN NoText
    ELSE IF Strip(outcome.text) # NoText THEN Strip(outcome.text) ELSE raw_text

\* TextCorrectionService.correct_text: the stripped reply, or raw_text when
\* the reply is blank or the call raised.
correct_text(raw_text, outcome) ==
    IF ~outcome.ok THEN raw_text
    ELSE IF Strip(outcome.text) # NoText THEN Strip(outcome.text) ELSE raw_text

SttOutcomes ==
    { [ok |-> FALSE, text |-> NoText] }
    \cup { [ok |-> TRUE, text |-> t] : t \in SttOutputs }

\* STTService._transcribe_audio: the text it returns and the failure mode it
\* ended in.
transcribe_audio(outcome) ==
    IF stt_model = "none" THEN [text |-> SttUnavailable, failure |-> "no_model"]
    ELSE IF ~outcome.ok THEN [text |-> NoText, failure |-> "exception"]
    ELSE [text |-> Strip(outcome.text), failure |-> "none"]

\* STTService.transcribe_and_correct, given what _transcribe_audio returned
transcribe_and_correct(raw_text, outcome) ==
    IF Strip(raw_text) = NoText THEN raw_text ELSE correct_text(raw_text, outcome)

\* Variant of the test of line 261 that processes every message.
should_process_always(content) == TRUE

\* Line 261: if user_content:
should_process(content) == content # NoText

\* Variant of line 366 that assigns instead of accumulating.
append_chunk_overwrite(content, chunk) == chunk

\* Line 366: ai_content += chunk
append_chunk(content, chunk) == content \o chunk

\* generate_response: if response.status_code == 200: ... if content: yield content
yields(response) == response.status = StatusOK /\ response.content # NoText

\* --------------------------------------------------------- initial state
\* Rows committed to the conversation before this session (turn 0).
\* A conversation is new, or holds more turns than the handler loads: user
\* and assistant rows in turn, the i-th with the text str(i).
StoredRows == HistoryLimit + 2
InitialRows ==
    { <<>>,
      [i \in 1..StoredRows |->
          Row(IF i % 2 = 1 THEN "user" ELSE "assistant", Decimal(i), None, NoText, 0)] }

\* The template of the session's character.
PromptTemplate == <<"T">>
Characters == [use_knowledge_base : BOOLEAN, prompt_template : {PromptTemplate}]

NoCall == [op |-> "none", sid |-> SELF, raised |-> FALSE]
NeverClosed == "never"
NoTranscript == [text |-> NoText, failure |-> "n/a"]
NotQueried == "not queried"
NoServiceCall == [fn |-> "none"]
NoSession == [pc |-> "none", conversation_id |-> 0, turn |-> 0]

Init ==
    /\ active_connections = {}
    /\ sock = [s \in SessionIds |-> "open"]
    /\ wire = [s \in SessionIds |-> <<>>]
    /\ last_call = NoCall
    /\ pc = "start"
    /\ exc = "none"
    /\ messages \in InitialRows
    /\ message_history = <<>>
    /\ data = NoMessage
    /\ user_content = NoText
    /\ user_audio_url = None
    /\ context_summary = NoText
    /\ retrieved_chunks = <<>>
    /\ ai_content = NoText
    /\ ai_audio_url = None
    /\ enhanced_prompt = NoText
    /\ llm_messages = <<>>
    /\ character \in Characters
    /\ stt_model \in {"loaded", "none"}
    /\ turn = 0
    /\ frags = [t \in 1..MaxTurns |-> <<>>]
    /\ transcript = NoTranscript
    /\ calls = {}
    /\ search_failed = FALSE
    /\ closed_at = NeverClosed
    /\ failures = {}
    /\ linked_documents = NotQueried
    /\ summarized = {}
    /\ service_call = NoServiceCall
    /\ sessions = [s \in SessionIds |-> NoSession]
    /\ table = <<>>

\* ------------------------------------------------------- handler steps
ErrorEvent == Event("error", NoText, None)

\* Variant of the except block that tells the client nothing.
ExceptHandlerSilent(kind, w) ==
    /\ exc' = kind
    /\ wire' = w
    /\ active_connections' = disconnect(SELF)
    /\ pc' = "returned"

\* Lines 277-283: except Exception: send {"error": ...}; finally: db.close();
\* manager.disconnect(session_id).  A failure of this send leaves the except
\* block, and the finally block still runs.  kind is the origin of the
\* exception, w what the transports carried when it was raised.
ExceptHandler(kind, w) ==
    /\ exc' = kind
    /\ wire' = send_message(w, ErrorEvent, SELF).wire
    /\ active_connections' = disconnect(SELF)
    /\ pc' = "returned"

\* The handler goes on to position p.
Continue(p, w) ==
    /\ pc' = p
    /\ exc' = exc
    /\ wire' = w
    /\ active_connections' = active_connections

\* After a send: the exception of a failed send leaves the try block.
AfterSend(r, p) == IF r.raised THEN ExceptHandler("send", r.wire) ELSE Continue(p, r.wire)

NoSend == [wire |-> wire, raised |-> FALSE]

\* Lines 259-273: need_audio = True; if user_content: _process_user_input(...)
NextAfterInput(content) == IF should_process(content) THEN "p_summary" ELSE "recv"

\* Line 176: await manager.connect(websocket, session_id)
Connect ==
    /\ pc = "start"
    /\ active_connections' = connect(SELF)
    /\ pc' = "load"
    /\ UNCHANGED <<sock, wire, last_call, exc, dbVars, turnVars, envVars, ghostVars>>

\* Lines 179-208: load the conversation, build message_history from the last
\* 10 rows, send the history event when there are rows.
LoadConversation ==
    /\ pc = "load"
    /\ \E found \in BOOLEAN :
        IF ~found
        THEN /\ ExceptHandler("load", wire)
             /\ UNCHANGED message_history
        ELSE LET recent == LastN(messages, HistoryLimit)
                 r == IF recent # <<>>
                      THEN send_message(wire, Event("history", NoText, None), SELF)
                      ELSE NoSend
             IN /\ message_history' =
                      [i \in 1..Len(recent) |-> Entry(recent[i].role, recent[i].content)]
                /\ AfterSend(r, "recv")
    /\ UNCHANGED <<sock, last_call, messages, turnVars, envVars, ghostVars>>

\* Line 211: receive_json delivers the next client message.
ReceiveMessage ==
    /\ pc = "recv"
    /\ sock[SELF] = "open"
    /\ turn < MaxTurns
    /\ \E m \in ClientMessages : data' = m
    /\ turn' = turn + 1
    /\ user_content' = NoText
    /\ user_audio_url' = None
    /\ calls' = {}
    /\ transcript' = NoTranscript
    /\ failures' = {}
    /\ linked_documents' = NotQueried
    /\ summarized' = {}
    /\ pc' = "normalize"
    /\ UNCHANGED <<connVars, exc, dbVars, context_summary, retrieved_chunks, ai_content,
                   ai_audio_url, enhanced_prompt, llm_messages, envVars, frags, search_failed, closed_at>>

\* Lines 211, 275-276, 280-283: receive_json raises WebSocketDisconnect; the
\* finally block unregisters the session.
ReceiveDisconnect ==
    /\ pc = "recv"
    /\ sock[SELF] = "closed"
    /\ exc' = "disconnect"
    /\ active_connections' = disconnect(SELF)
    /\ pc' = "returned"
    /\ UNCHANGED <<sock, wire, last_call, dbVars, turnVars, envVars, ghostVars>>

\* Lines 225-234: a text message.  A message without "content" fails at
\* raw_text[:100].
NormalizeText ==
    /\ pc = "normalize"
    /\ data.type = "text"
    /\ IF ~data.has_content
       THEN /\ ExceptHandler("malformed", wire)
            /\ UNCHANGED <<user_content, calls, failures>>
       ELSE \E o \in CorrectionOutcomes :
              LET corrected == correct_text(data.content, o)
                  r == send_message(wire, Event("transcription", corrected, None), SELF)
              IN /\ user_content' = corrected
                 /\ calls' = calls \cup {"correct"}
                 /\ failures' = IF o.ok THEN failures ELSE failures \cup {"correct"}
                 /\ AfterSend(r, NextAfterInput(corrected))
    /\ UNCHANGED <<sock, last_call, dbVars, data, user_audio_url, context_summary,
                   retrieved_chunks, ai_content, ai_audio_url, enhanced_prompt, llm_messages, envVars, turn, frags,
                   transcript, search_failed, closed_at, linked_documents,
                   summarized>>

\* Lines 236-248: an audio message, up to the transcription event.  Data that
\* is not base64 fails at b64decode.
NormalizeAudio ==
    /\ pc = "normalize"
    /\ data.type = "audio"
    /\ IF ~data.b64_ok
       THEN /\ ExceptHandler("malformed", wire)
            /\ UNCHANGED <<user_content, calls, transcript, failures>>
       ELSE \E so \in SttOutcomes, co \in CorrectionOutcomes :
              LET t == transcribe_audio(so)
                  corrected == transcribe_and_correct(t.text, co)
                  r == send_message(wire, Event("transcription", corrected, None), SELF)
              IN /\ transcript' = t
                 /\ user_content' = corrected
                 /\ calls' = calls \cup {"transcribe"}
                 /\ failures' = IF Strip(t.text) # NoText /\ ~co.ok
                                 THEN failures \cup {"correct"} ELSE failures
                 /\ AfterSend(r, "upload_user")
    /\ UNCHANGED <<sock, last_call, dbVars, data, user_audio_url, context_summary,
                   retrieved_chunks, ai_content, ai_audio_url, enhanced_prompt, llm_messages, envVars, turn, frags,
                   search_failed, closed_at, linked_documents,
                   summarized>>

\* Lines 250-261: upload the user's audio (save_and_upload_audio returns None
\* on failure); send its URL when there is one.
UploadUserAudio ==
    /\ pc = "upload_user"
    /\ \E ok \in BOOLEAN :
        LET url == IF ok THEN "url_user" ELSE None
            r == IF url # None
                 THEN send_message(wire, Event("audio", NoText, url), SELF)
                 ELSE NoSend
        IN /\ user_audio_url' = url
           /\ AfterSend(r, NextAfterInput(user_content))
    /\ UNCHANGED <<sock, last_call, dbVars, data, user_content, context_summary,
                   retrieved_chunks, ai_content, ai_audio_url, enhanced_prompt, llm_messages, envVars, ghostVars>>

\* Lines 225, 236, 261: a message of another type starts nothing.
NormalizeOther ==
    /\ pc = "normalize"
    /\ data.type \notin {"text", "audio"}
    /\ pc' = NextAfterInput(user_content)
    /\ UNCHANGED <<connVars, exc, dbVars, turnVars, envVars, ghostVars>>

\* ------------------------------------------------- _process_user_input
\* Message.context_prompt is String(1000): a longer summary is cut to its
\* first 997 characters + "...".
SummaryLimit == 1000
SummaryKeep == 997
Ellipsis == <<".", ".", ".">>
\* The text ContextAgent.generate_summary returns when its LLM call raised.
AgentFailureText == <<"f">>
\* What the summarization LLM may answer (before .strip()).
SummaryReplies == {<<"s">>}
SummaryOutcomes ==
    { [ok |-> FALSE, text |-> NoText] }
    \cup { [ok |-> TRUE, text |-> t] : t \in SummaryReplies }

\* Variant of ContextAgent.generate_summary that lets the failure through.
agent_generate_summary_raising(outcome) ==
    IF outcome.ok THEN [raised |-> FALSE, text |-> Strip(outcome.text)]
    ELSE [raised |-> TRUE, text |-> NoText]

\* ContextAgent.generate_summary: catches the failure of its LLM call and
\* returns a fixed text, so it never raises.
agent_generate_summary(outcome) ==
    [raised |-> FALSE,
     text |-> IF outcome.ok THEN Strip(outcome.text) ELSE AgentFailureText]

\* Line 100: the fallback text of generate_context_summary, which names the
\* number of recent messages ("对话历史摘要: 最近{n}条消息的对话上下文").
FallbackSummary(n) == <<"H", ":">> \o Decimal(n)

\* Variant of generate_context_summary that returns the summary as generated.
generate_context_summary_uncut(recent, outcome) ==
    IF recent = <<>> THEN NoText ELSE agent_generate_summary(outcome).text

\* generate_context_summary
generate_context_summary(recent, outcome) ==
    IF recent = <<>> THEN NoText
    ELSE LET r == agent_generate_summary(outcome)
         IN IF r.raised THEN FallbackSummary(Len(recent))
            ELSE IF Len(r.text) > SummaryLimit
            THEN SubSeq(r.text, 1, SummaryKeep) \o Ellipsis
            ELSE r.text

\* Lines 304-310: the last 10 committed rows, summarized.
Summarize ==
    /\ pc = "p_summary"
    /\ LET recent == LastN(messages, HistoryLimit)
       IN \E o \in SummaryOutcomes :
            /\ context_summary' = generate_context_summary(recent, o)
            /\ summarized' = {<<recent[i].role, recent[i].turn>> : i \in DOMAIN recent}
            /\ calls' = IF recent = <<>> THEN calls ELSE calls \cup {"summarize"}
            /\ failures' = IF recent # <<>> /\ ~o.ok
                            THEN failures \cup {"summarize"} ELSE failures
    /\ pc' = "p_rag"
    /\ UNCHANGED <<connVars, exc, dbVars, data, user_content, user_audio_url,
                   retrieved_chunks, ai_content, ai_audio_url, enhanced_prompt, llm_messages, envVars, turn, frags,
                   transcript, search_failed, closed_at, linked_documents>>

\* What the knowledge search may answer: a failure (of the query embedding or
\* of the vector query), or the chunks found.
SearchOutcomes ==
    { [ok |-> FALSE, chunks |-> <<>>],
      [ok |-> TRUE, chunks |-> <<>>],
      [ok |-> TRUE, chunks |-> <<"k">>] }

\* Variant of the tests of lines 316 and 320 that always searches.
should_search_always(ch, has_documents) == TRUE

\* Lines 316 and 320: if character.use_knowledge_base: ... if character_with_docs
\* and character_with_docs.knowledge_documents:
should_search(ch, has_documents) == ch.use_knowledge_base /\ has_documents

\* Lines 312-331: retrieval, when the character uses a knowledge base and the
\* query of line 319 finds linked documents.  search_knowledge lets
\* create_embedding's and the vector query's exceptions through.
Retrieve ==
    /\ pc = "p_rag"
    /\ \E has_documents \in BOOLEAN, o \in SearchOutcomes :
        /\ linked_documents' = IF ~character.use_knowledge_base THEN NotQueried
                                ELSE IF has_documents THEN "some" ELSE "none"
        /\ IF should_search(character, has_documents)
           THEN /\ calls' = calls \cup {"search"}
                /\ search_failed' = ~o.ok
                /\ retrieved_chunks' = o.chunks
                /\ IF o.ok THEN Continue("p_commit_user", wire)
                   ELSE ExceptHandler("search", wire)
           ELSE /\ retrieved_chunks' = <<>>
                /\ Continue("p_commit_user", wire)
                /\ UNCHANGED <<calls, search_failed>>
    /\ UNCHANGED <<sock, last_call, dbVars, data, user_content, user_audio_url,
                   context_summary, ai_content, ai_audio_url, enhanced_prompt, llm_messages, envVars, turn, frags,
                   transcript, closed_at, failures, summarized>>

\* Join the texts of a list with a separator: sep.join(parts).
RECURSIVE JoinWith(_, _)
JoinWith(parts, sep) ==
    IF parts = <<>> THEN <<>>
    ELSE IF Len(parts) = 1 THEN Head(parts)
    ELSE Head(parts) \o sep \o JoinWith(Tail(parts), sep)

NewLine == "\n"
\* "\n\n"
BlankLine == <<NewLine, NewLine>>
\* Stand-ins for the fixed phrases of the prompt: the retrieval preamble of
\* build_context_prompt ("以下是相关的背景知识 ..."), its closing request, the
\* retrieval block header ("相关知识上下文:") and the summary block header
\* ("对话历史总结:"), each with the line feed that follows or precedes it.
RetrievalPreamble == <<"P", ":", NewLine>>
RetrievalClosing == <<NewLine, "Q">>
RetrievalHeader == <<"K", ":", NewLine>>
SummaryHeader == <<"S", ":", NewLine>>

\* The part of build_context_prompt for the i-th chunk: its label and content.
ChunkPart(i, chunk) == <<"[">> \o Decimal(i) \o <<"]", NewLine, chunk, NewLine>>

\* RAGService.build_context_prompt
build_context_prompt(chunks) ==
    IF chunks = <<>> THEN NoText
    ELSE JoinWith(<<RetrievalPreamble>>
                  \o [i \in 1..Len(chunks) |-> ChunkPart(i, chunks[i])]
                  \o <<RetrievalClosing>>,
                  <<NewLine>>)

\* Lines 314, 329-330
rag_context_prompt ==
    IF retrieved_chunks # <<>> THEN build_context_prompt(retrieved_chunks) ELSE NoText

\* Variant of the prompt parts that appends both blocks unconditionally.
enhanced_prompt_parts_unconditional ==
    <<character.prompt_template, RetrievalHeader \o rag_context_prompt,
      SummaryHeader \o context_summary>>

\* Lines 348-354
enhanced_prompt_parts ==
    <<character.prompt_template>>
    \o (IF rag_context_prompt # NoText THEN <<RetrievalHeader \o rag_context_prompt>> ELSE <<>>)
    \o (IF context_summary # NoText THEN <<SummaryHeader \o context_summary>> ELSE <<>>)

\* Line 356: "\n\n".join(enhanced_prompt_parts)
build_enhanced_prompt == JoinWith(enhanced_prompt_parts, BlankLine)

\* Variant of the appends of lines 345 and 464 that leaves the assistant
\* entry out.
history_append_user_only(history, role, content) ==
    IF role = "user" THEN Append(history, Entry(role, content)) ELSE history

\* Lines 345 and 464: message_history.append({"role": ..., "content": ...})
history_append(history, role, content) == Append(history, Entry(role, content))

\* Variant of the slice of line 363 that hands over the whole history.
history_window_whole(history) == history

\* Line 363: messages=message_history[-10:]
history_window(history) == LastN(history, HistoryLimit)

\* Lines 333-365: commit the user row, append it to the history, assemble the
\* prompt and open the generation stream on the last 10 entries.
CommitUser ==
    /\ pc = "p_commit_user"
    /\ messages' = Append(messages, Row("user", user_content, user_audio_url, NoText, turn))
    /\ message_history' = history_append(message_history, "user", user_content)
    /\ enhanced_prompt' = build_enhanced_prompt
    /\ llm_messages' = history_window(message_history')
    /\ ai_content' = NoText
    /\ calls' = calls \cup {"generate"}
    /\ pc' = "p_gen"
    /\ UNCHANGED <<connVars, exc, data, user_content, user_audio_url, context_summary,
                   retrieved_chunks, ai_audio_url, envVars, turn, frags, transcript,
                   search_failed, closed_at, failures, linked_documents,
                   summarized>>

\* Fragments the generation service has yielded to this session.
RECURSIVE SumLen(_, _)
SumLen(f, n) == IF n = 0 THEN 0 ELSE Len(f[n]) + SumLen(f, n - 1)
FragmentsYielded == SumLen(frags, MaxTurns)

\* What the generation stream may deliver next: a fragment, an empty
\* content, or a response whose status is not 200.
Responses ==
    { [status |-> StatusOK, content |-> FragmentTexts[FragmentsYielded + 1]],
      [status |-> StatusOK, content |-> NoText],
      [status |-> 500, content |-> FragmentTexts[FragmentsYielded + 1]] }

\* Lines 362-370: one response of the generation stream; a fragment it
\* yields is appended to ai_content and sent as a text_stream event.
GenerateChunk ==
    /\ pc = "p_gen"
    /\ \E response \in Responses :
        /\ yields(response) => FragmentsYielded < MaxFragments
        /\ IF yields(response)
           THEN LET r == send_message(wire, Event("text_stream", response.content, None), SELF)
                IN /\ ai_content' = append_chunk(ai_content, response.content)
                   /\ frags' = [frags EXCEPT ![turn] = Append(@, response.content)]
                   /\ AfterSend(r, "p_gen")
           ELSE /\ Continue("p_gen", wire)
                /\ UNCHANGED <<ai_content, frags>>
    /\ failures' = failures \ {"correct"}
    /\ UNCHANGED <<sock, last_call, dbVars, data, user_content, user_audio_url,
                   context_summary, retrieved_chunks, ai_audio_url, enhanced_prompt,
                   llm_messages, envVars, turn, transcript, calls, search_failed,
                   closed_at, linked_documents, summarized>>

\* Lines 362-365: the generation call raises (before or between fragments).
GenerateRaise ==
    /\ pc = "p_gen"
    /\ ExceptHandler("generation", wire)
    /\ failures' = failures \ {"correct"}
    /\ UNCHANGED <<sock, last_call, dbVars, turnVars, envVars, turn, frags, transcript, calls, search_failed, closed_at,
                   linked_documents, summarized>>

\* Line 371: the generation stream ends.
GenerateEnd ==
    /\ pc = "p_gen"
    /\ pc' = "p_tts"
    /\ failures' = failures \ {"correct"}
    /\ UNCHANGED <<connVars, exc, dbVars, turnVars, envVars, turn, frags, transcript, calls, search_failed, closed_at,
                   linked_documents, summarized>>

TtsOutcomes == {"ok", "synthesis_failed", "upload_failed"}

\* The characters the regular expression of line 139 removes (the backslash and
\* the backquote, which no text of the model contains, left out).
SpecialSymbols ==
    {"*", "#", "@", "$", "%", "^", "&", "_", "+", "=", "{", "}", "[", "]", "|",
     "<", ">", "~"}

\* re.sub of line 139
RemoveSymbols(text) == SelectSeq(text, LAMBDA c : c \notin SpecialSymbols)

\* What the cleaning LLM may answer (before .strip()).
CleanReplies == {<<"a">>}
CleanOutcomes ==
    { [ok |-> FALSE, text |-> NoText] }
    \cup { [ok |-> TRUE, text |-> t] : t \in CleanReplies }

\* _clean_text_for_tts consults the LLM only for a text with special symbols.
NeedsCleaning(text) == RemoveSymbols(text) # text

\* Variant of _clean_text_for_tts that gives the text back as it is when the
\* LLM call raised.
clean_text_for_tts_unfiltered(text, outcome) ==
    IF ~NeedsCleaning(text) THEN text
    ELSE IF outcome.ok THEN Strip(outcome.text)
    ELSE text

\* _clean_text_for_tts: the text itself when it has no special symbol, else
\* the stripped answer of the LLM, else (the LLM call raised) the text without
\* its special symbols.
clean_text_for_tts(text, outcome) ==
    IF ~NeedsCleaning(text) THEN text
    ELSE IF outcome.ok THEN Strip(outcome.text)
    ELSE RemoveSymbols(text)

\* Variant of the synthesis block without its except branch.
tts_except_missing(w) == [wire |-> w, raised |-> TRUE]

\* Lines 442-447: except Exception: send the audio_error event.
tts_except(w) == send_message(w, Event("audio_error", NoText, None), SELF)

\* Lines 377-447: clean the text, synthesize the whole reply, upload it and
\* send its URL; any failure, a failed send included, goes to the except
\* branch of line 442, which sends the audio_error event.
Synthesize ==
    /\ pc = "p_tts"
    /\ \E co \in CleanOutcomes, o \in TtsOutcomes :
        LET url == IF o = "ok" THEN "url_ai" ELSE None
            sent == IF o = "ok"
                    THEN send_message(wire, Event("audio", NoText, url), SELF)
                    ELSE [wire |-> wire, raised |-> TRUE]
            r == IF sent.raised THEN tts_except(sent.wire) ELSE sent
        IN /\ ai_audio_url' = url
           /\ calls' = calls \cup {"clean", "synthesize"}
           /\ failures' = failures
                \cup (IF NeedsCleaning(ai_content) /\ ~co.ok THEN {"clean"} ELSE {})
                \cup (IF o # "ok" THEN {"tts"} ELSE {})
           /\ AfterSend(r, "p_commit_ai")
    /\ UNCHANGED <<sock, last_call, dbVars, data, user_content, user_audio_url,
                   context_summary, retrieved_chunks, ai_content, enhanced_prompt,
                   llm_messages,
                   envVars, turn, frags, transcript, search_failed, closed_at,
                   linked_documents,
                   summarized>>

\* Lines 451-464: commit the assistant row, append it to the history; the
\* loop goes back to receive_json.
CommitAssistant ==
    /\ pc = "p_commit_ai"
    /\ messages' = Append(messages,
                          Row("assistant", ai_content, ai_audio_url, context_summary, turn))
    /\ message_history' = history_append(message_history, "assistant", ai_content)
    /\ pc' = "recv"
    \* _process_user_input has returned: its locals are gone
    /\ data' = NoMessage
    /\ user_content' = NoText
    /\ user_audio_url' = None
    /\ context_summary' = NoText
    /\ retrieved_chunks' = <<>>
    /\ ai_content' = NoText
    /\ ai_audio_url' = None
    /\ enhanced_prompt' = NoText
    /\ llm_messages' = <<>>
    /\ calls' = {}
    /\ transcript' = NoTranscript
    /\ linked_documents' = NotQueried
    /\ summarized' = {}
    \* the user text and the text handed to the synthesis are gone with them
    /\ failures' = failures \ {"clean"}
    /\ UNCHANGED <<connVars, exc, envVars, turn, frags, search_failed, closed_at>>

\* ------------------------------------------------------------ the client
\* The phase of the handler at position p: "reply" from the opening of the
\* generation stream to the last event of the reply, "persist" between that
\* event and the commit of the assistant row.
Phase(p) ==
    CASE p = "p_gen" \/ p = "p_tts" -> "reply"
      [] p = "p_commit_ai" -> "persist"
      [] OTHER -> "input"

\* The client closes the transport, at any point of the handler.
ClientClose ==
    /\ pc \notin {"start", "returned"}
    /\ sock[SELF] = "open"
    /\ sock' = [sock EXCEPT ![SELF] = "closed"]
    /\ closed_at' = Phase(pc)
    /\ UNCHANGED <<active_connections, wire, last_call, pc, exc, dbVars, turnVars, envVars,
                   turn, frags, transcript, calls, search_failed, failures,
                   linked_documents,
                   summarized>>

Next ==
    /\ \/ Connect
       \/ LoadConversation
       \/ ReceiveMessage
       \/ ReceiveDisconnect
       \/ NormalizeText
       \/ NormalizeAudio
       \/ UploadUserAudio
       \/ NormalizeOther
       \/ Summarize
       \/ Retrieve
       \/ CommitUser
       \/ GenerateChunk
       \/ GenerateRaise
       \/ GenerateEnd
       \/ Synthesize
       \/ CommitAssistant
       \/ ClientClose
    /\ UNCHANGED fnVars

Spec == Init /\ [][Next]_vars

\* ------------------------------------------------------------- progress
\* The handler is at an await of an external call that has no timeout of
\* its own: correction and transcription (lines 228, 242), the upload of the
\* user's audio (251), summarization (309), the knowledge search (321), the
\* generation stream (362), cleaning, synthesis and upload of the reply
\* (382-432).  No call of the handler is wrapped in a timeout, and of the
\* services only IndexTTS2Service.synthesize sets one on its request.
AwaitsExternalCall ==
    \/ pc = "normalize" /\ data.type = "text" /\ data.has_content
    \/ pc = "normalize" /\ data.type = "audio" /\ data.b64_ok
    \/ pc = "upload_user"
    \/ pc = "p_summary" /\ messages # <<>>
    \/ pc = "p_rag" /\ character.use_knowledge_base
    \/ pc = "p_gen"
    \/ pc = "p_tts"

\* The call never answers: the handler stays at its await.
CallNeverAnswers ==
    /\ AwaitsExternalCall
    /\ pc' = "blocked"
    /\ UNCHANGED <<connVars, exc, dbVars, turnVars, envVars, ghostVars, fnVars>>

LiveNext == Next \/ CallNeverAnswers

\* The event loop runs every handler step that is ready; nothing obliges an
\* external service to answer.
LiveSpec == Init /\ [][LiveNext]_vars /\ WF_vars(Next)

\* ------------------------------------------- the registry on its own
\* ConnectionManager called in any order for any session id, as its public
\* interface allows, while clients close their transports.
RegInit == Init /\ messages = <<>> /\ ~character.use_knowledge_base /\ stt_model = "loaded"

RegCall(op, session_id, raised) == [op |-> op, sid |-> session_id, raised |-> raised]

RegConnect ==
    \E s \in SessionIds :
        /\ active_connections' = connect(s)
        /\ last_call' = RegCall("connect", s, FALSE)
        /\ UNCHANGED <<sock, wire>>

RegDisconnect ==
    \E s \in SessionIds :
        /\ active_connections' = disconnect(s)
        /\ last_call' = RegCall("disconnect", s, FALSE)
        /\ UNCHANGED <<sock, wire>>

RegSend ==
    \E s \in SessionIds :
        /\ Len(wire[s]) < MaxWire
        /\ LET r == send_message(wire, ErrorEvent, s)
           IN /\ wire' = r.wire
              /\ last_call' = RegCall("send", s, r.raised)
        /\ UNCHANGED <<active_connections, sock>>

RegClose ==
    \E s \in SessionIds :
        /\ sock[s] = "open"
        /\ sock' = [sock EXCEPT ![s] = "closed"]
        /\ last_call' = RegCall("close", s, FALSE)
        /\ UNCHANGED <<active_connections, wire>>

RegNext ==
    /\ \/ RegConnect
       \/ RegDisconnect
       \/ RegSend
       \/ RegClose
    /\ UNCHANGED <<pc, exc, dbVars, turnVars, envVars, ghostVars, fnVars>>

RegistrySpec == RegInit /\ [][RegNext]_vars

\* ------------------------------------------- the services on their own
\* The functions of the services called one at a time with arguments drawn
\* from bounded sets; service_call holds the arguments and the result of
\* the call in progress.
ServiceInit == RegInit

\* A text of n characters, the i-th being the last digit of i.
LongText(n) == [i \in 1..n |-> DigitChars[(i % 10) + 1]]

\* The summaries the LLM may generate: every length up to the limit and
\* MaxOverflow characters beyond, or a failure.
LongSummaryOutcomes ==
    { [ok |-> FALSE, text |-> NoText] }
    \cup { [ok |-> TRUE, text |-> LongText(n)] : n \in 0..(SummaryLimit + MaxOverflow) }

\* The delimiters of the pattern of line 120 (the two lenticular brackets,
\* which no text of the model contains, left out).
MarkerDelimiters == {"*", "#", "[", "]", "(", ")"}

\* The positions of the delimiters of a text, in order.
RECURSIVE DelimiterPositions(_, _)
DelimiterPositions(text, from) ==
    IF from > Len(text) THEN <<>>
    ELSE IF text[from] \in MarkerDelimiters
         THEN <<from>> \o DelimiterPositions(text, from + 1)
         ELSE DelimiterPositions(text, from + 1)

\* re.search(pattern, text): the pattern is a delimiter, any characters that
\* are not delimiters, a delimiter; its leftmost match runs from the first
\* delimiter of the text to the second.
HasMarker(text) == Len(DelimiterPositions(text, 1)) >= 2

\* re.sub(pattern, '', text): every match removed, left to right.
RECURSIVE RemoveMarkers(_)
RemoveMarkers(text) ==
    LET d == DelimiterPositions(text, 1)
    IN IF Len(d) < 2 THEN text
       ELSE SubSeq(text, 1, d[1] - 1) \o RemoveMarkers(SubSeq(text, d[2] + 1, Len(text)))

\* IndexTTS2Service.extract_emotion_and_clean_text
extract_emotion_and_clean_text(text) ==
    IF HasMarker(text)
    THEN LET d == DelimiterPositions(text, 1)
         IN [has_emotion |-> TRUE,
             emotion |-> SubSeq(text, d[1] + 1, d[2] - 1),
             clean_text |-> Strip(RemoveMarkers(text))]
    ELSE [has_emotion |-> FALSE, emotion |-> NoText, clean_text |-> text]

\* IndexTTS2Service.synthesize_from_character: the text and the emotion
\* directive of the request it makes; config_emo_text is tts_config's
\* "emo_text" (NoText when absent).
synthesize_from_character(text, config_emo_text) ==
    LET e == extract_emotion_and_clean_text(text)
    IN [text |-> text,
        emo_text |-> IF e.has_emotion /\ e.emotion # NoText
                     THEN e.emotion ELSE config_emo_text]

\* The reply texts handed to the synthesis: up to MaxReplyLen characters.
ReplyChars == {"a", "*", "(", ")", Space}
ReplyTexts == UNION { [1..n -> ReplyChars] : n \in 0..MaxReplyLen }

CallSynthesizeFromCharacter ==
    /\ service_call.fn = "none"
    /\ \E text \in ReplyTexts, config_emo_text \in {NoText, <<"e">>} :
        service_call' = [fn |-> "synthesize_from_character",
                         text |-> text,
                         config_emo_text |-> config_emo_text,
                         request |-> synthesize_from_character(text, config_emo_text)]

CallGenerateContextSummary ==
    /\ service_call.fn = "none"
    /\ \E recent \in InitialRows, o \in LongSummaryOutcomes :
        service_call' = [fn |-> "generate_context_summary",
                         recent |-> recent,
                         outcome |-> o,
                         result |-> generate_context_summary(recent, o)]

\* Lines 382 and 411-427: the reply is cleaned and the cleaned text is the
\* text argument of tts_service.synthesize; llm_called tells whether
\* _clean_text_for_tts reached the LLM call of line 156.
CallCleanTextForTts ==
    /\ service_call.fn = "none"
    /\ \E text \in ReplyTexts, o \in CleanOutcomes :
        service_call' = [fn |-> "clean_text_for_tts",
                         text |-> text,
                         outcome |-> o,
                         llm_called |-> NeedsCleaning(text),
                         spoken |-> clean_text_for_tts(text, o)]

\* The keyword parameters of IndexTTS2Service.synthesize (lines 27-36).
IndexTts2Parameters ==
    {"text", "voice_audio_url", "emo_text", "emo_audio_url", "emotion_vector",
     "emo_alpha", "use_random"}

\* The keywords TTSService._synthesize_indextts2 passes on (lines 99-103):
\* text, voice_id and the keywords the handler gave (handler.py 411-421).
IndexTts2Keywords ==
    {"text", "voice_id"}
    \cup {"voice_audio_url", "emo_audio_url", "emo_text", "emo_alpha", "emotion_vector",
          "use_random"}

TtsEngines == {"edge_tts", "indextts2"}

\* TTSService.synthesize: the dispatch on the engine.  A call with a keyword
\* the callee does not declare raises TypeError before the callee's body
\* runs; a backend that fails raises from the engine.
tts_synthesize(engine, backend_ok) ==
    IF engine = "indextts2" /\ ~(IndexTts2Keywords \subseteq IndexTts2Parameters)
    THEN [reached |-> FALSE, raised |-> TRUE]
    ELSE [reached |-> TRUE, raised |-> ~backend_ok]

\* Lines 389-447 of the handler: synthesize with the character's engine,
\* upload, send the audio event; any exception sends audio_error instead.
CallTtsSynthesize ==
    /\ service_call.fn = "none"
    /\ \E engine \in TtsEngines, text \in ReplyTexts, backend_ok \in BOOLEAN, upload_ok \in BOOLEAN :
        LET r == tts_synthesize(engine, backend_ok)
        IN service_call' = [fn |-> "tts_synthesize",
                            engine |-> engine,
                            text |-> text,
                            backend_ok |-> backend_ok,
                            upload_ok |-> upload_ok,
                            reached |-> r.reached,
                            raised |-> r.raised,
                            event |-> IF ~r.raised /\ upload_ok THEN "audio"
                                      ELSE "audio_error"]

\* What "need_audio" may be in a client message.
FlagValues == {"true", "false", "absent"}

\* Line 213: need_audio = data.get("need_audio", False)
need_audio_read(flag) == flag = "true"

\* Variant of line 259 that keeps the value read at line 213.
need_audio_kept(read) == read

\* Line 259: need_audio = True, whatever was read
need_audio_passed(read) == TRUE

\* Lines 374-462 of _process_user_input as far as need_audio decides them:
\* whether the synthesis is attempted, the events sent after the text and
\* the audio URL of the assistant row.
audio_step(need_audio, o) ==
    IF ~need_audio THEN [attempted |-> FALSE, events |-> <<>>, audio_url |-> None]
    ELSE IF o = "ok" THEN [attempted |-> TRUE, events |-> <<"audio">>, audio_url |-> "url_ai"]
    ELSE [attempted |-> TRUE, events |-> <<"audio_error">>, audio_url |-> None]

\* Two turns that differ in the need_audio of their client message only.
CallAudioStepTwice ==
    /\ service_call.fn = "none"
    /\ \E f1 \in FlagValues, f2 \in FlagValues, o \in TtsOutcomes :
        service_call' = [fn |-> "audio_step",
                         flags |-> <<f1, f2>>,
                         outcome |-> o,
                         results |-> <<audio_step(need_audio_passed(need_audio_read(f1)), o),
                                       audio_step(need_audio_passed(need_audio_read(f2)), o)>>]

\* RAGService.MAX_BATCH_SIZE
MAX_BATCH_SIZE == 25
\* Parts (pages, paragraphs) of a document.
MaxParts == 2
\* Chunks the splitter may produce for one part: none, a few, a full batch
\* and one more.
ChunkCounts == {0, 1, 2, MAX_BATCH_SIZE, MAX_BATCH_SIZE + 1}

NoChunks == [total_chunks |-> 0, saved_chunks |-> 0, chunk_objects |-> <<>>, saved |-> <<>>]

\* Lines 194-227: one chunk is given the next index and collected; the
\* collected chunks are embedded and saved when they fill a batch or when
\* the part is the last one.
collect_chunk(st, last_part) ==
    LET chunk_objects == Append(st.chunk_objects, st.total_chunks)
    IN IF Len(chunk_objects) >= MAX_BATCH_SIZE \/ last_part
       THEN [total_chunks |-> st.total_chunks + 1,
             saved_chunks |-> st.saved_chunks + Len(chunk_objects),
             chunk_objects |-> <<>>,
             saved |-> st.saved \o chunk_objects]
       ELSE [total_chunks |-> st.total_chunks + 1,
             saved_chunks |-> st.saved_chunks,
             chunk_objects |-> chunk_objects,
             saved |-> st.saved]

\* Lines 125-191: RAGService.process_document is called on a document of n
\* parts and splits the first; parts[k] is the number of chunks the splitter
\* produces for part k.  No call fails.
CallProcessDocument ==
    /\ service_call.fn = "none"
    /\ \E n \in 1..MaxParts : \E parts \in [1..n -> ChunkCounts] :
        service_call' = [fn |-> "process_document",
                         parts |-> parts,
                         doc_index |-> 1,
                         chunks_left |-> parts[1],
                         st |-> NoChunks,
                         returned |-> FALSE]

\* Lines 194-227: one pass of the inner loop, over the chunks of the part.
ProcessDocumentChunk ==
    /\ service_call.fn = "process_document"
    /\ ~service_call.returned
    /\ service_call.chunks_left > 0
    /\ service_call' =
           [service_call EXCEPT
               !.st = collect_chunk(@, service_call.doc_index = Len(service_call.parts)),
               !.chunks_left = @ - 1]

\* Lines 186-191: the chunks of the part are exhausted; the next part is
\* split.
ProcessDocumentPart ==
    /\ service_call.fn = "process_document"
    /\ ~service_call.returned
    /\ service_call.chunks_left = 0
    /\ service_call.doc_index < Len(service_call.parts)
    /\ service_call' =
           [service_call EXCEPT
               !.doc_index = @ + 1,
               !.chunks_left = service_call.parts[service_call.doc_index + 1]]

\* Lines 229-237: the parts are exhausted; the transaction is committed and
\* the document returned.
ProcessDocumentReturn ==
    /\ service_call.fn = "process_document"
    /\ ~service_call.returned
    /\ service_call.chunks_left = 0
    /\ service_call.doc_index = Len(service_call.parts)
    /\ service_call' = [service_call EXCEPT !.returned = TRUE]

\* The call returns to its caller.
ServiceReturn ==
    /\ service_call.fn # "none"
    /\ service_call.fn = "process_document" => service_call.returned
    /\ service_call' = NoServiceCall

ServiceNext ==
    /\ \/ CallGenerateContextSummary
       \/ CallSynthesizeFromCharacter
       \/ CallCleanTextForTts
       \/ CallTtsSynthesize
       \/ CallAudioStepTwice
       \/ CallProcessDocument
       \/ ProcessDocumentChunk
       \/ ProcessDocumentPart
       \/ ProcessDocumentReturn
       \/ ServiceReturn
    /\ UNCHANGED <<connVars, pc, exc, dbVars, turnVars, envVars, ghostVars, sessions, table>>

ServiceSpec == ServiceInit /\ [][ServiceNext]_vars

\* ------------------------------------- sessions on shared conversations
\* Every connection to /ws/{conversation_id} runs handle_websocket as a task
\* of its own under a fresh session id, with a database session of its own;
\* the tasks interleave at their awaits.  A handler is followed here through
\* its writes to the messages table only.
ConversationIds == {1, 2}
\* Rows the table may hold before no handler takes another client message.
MaxRows == 3

TableRow(conversation_id, role, sid, t) ==
    [conversation_id |-> conversation_id, role |-> role, sid |-> sid, turn |-> t]

\* main.py 67-70 and lines 176-208: any conversation id is served, whoever
\* else is connected to it; loading the conversation writes nothing.
SharedConnect(s) ==
    /\ sessions[s].pc = "none"
    /\ \E c \in ConversationIds :
        sessions' = [sessions EXCEPT ![s] = [pc |-> "recv", conversation_id |-> c, turn |-> 0]]
    /\ UNCHANGED table

\* Lines 211-331: a client message with content; correction, summary and
\* retrieval write nothing.
SharedReceive(s) ==
    /\ sessions[s].pc = "recv"
    /\ Len(table) < MaxRows
    /\ sessions' = [sessions EXCEPT ![s].pc = "p_commit_user", ![s].turn = @ + 1]
    /\ UNCHANGED table

\* Lines 333-345
SharedCommitUser(s) ==
    /\ sessions[s].pc = "p_commit_user"
    /\ table' = Append(table, TableRow(sessions[s].conversation_id, "user", s, sessions[s].turn))
    /\ sessions' = [sessions EXCEPT ![s].pc = "p_gen"]

\* Lines 362-464: the reply is generated and synthesized, then committed.
SharedCommitAssistant(s) ==
    /\ sessions[s].pc = "p_gen"
    /\ table' = Append(table, TableRow(sessions[s].conversation_id, "assistant", s, sessions[s].turn))
    /\ sessions' = [sessions EXCEPT ![s].pc = "recv"]

\* Lines 362-370 and 277-283: the generation or a send raises; the handler
\* returns without an assistant row.
SharedReplyFails(s) ==
    /\ sessions[s].pc = "p_gen"
    /\ sessions' = [sessions EXCEPT ![s].pc = "returned"]
    /\ UNCHANGED table

\* Lines 275-283: the client disconnects between two messages.
SharedDisconnect(s) ==
    /\ sessions[s].pc = "recv"
    /\ sessions' = [sessions EXCEPT ![s].pc = "returned"]
    /\ UNCHANGED table

SharedNext ==
    /\ \E s \in SessionIds :
           \/ SharedConnect(s)
           \/ SharedReceive(s)
           \/ SharedCommitUser(s)
           \/ SharedCommitAssistant(s)
           \/ SharedReplyFails(s)
           \/ SharedDisconnect(s)
    /\ UNCHANGED <<connVars, pc, exc, dbVars, turnVars, envVars, ghostVars, service_call>>

SharedSpec == RegInit /\ [][SharedNext]_vars

\* ------------------------------------------------------------ properties
\* The payloads of the text_stream events the session was sent in turn t.
StreamPayloads(t) ==
    LET ev == SelectEvents(wire[SELF], "text_stream", t)
    IN [i \in 1..Len(ev) |-> ev[i].content]

\* The committed rows of a role in turn t.
RowsOf(role, t) == {i \in DOMAIN messages : messages[i].role = role /\ messages[i].turn = t}

LastEntryIs(role) ==
    message_history # <<>> /\ message_history[Len(message_history)].role = role

AllButLast(s) == SubSeq(s, 1, Len(s) - 1)

\* C1: for every reply, the text_stream payloads sent in its turn are, one
\* event per fragment and in order, the fragments the generation stream
\* yielded, and their concatenation is the content stored as the assistant
\* row; while a turn is in flight the events sent so far are the fragments
\* yielded so far, the one whose send failed on a closed transport excepted.
C1_StreamEqualsFragments ==
    \A t \in 1..MaxTurns :
        LET sent == StreamPayloads(t)
        IN /\ (t # turn \/ exc # "send") => sent = frags[t]
           /\ (t = turn /\ exc = "send") => sent \in {frags[t], AllButLast(frags[t])}
           /\ (t = turn /\ pc \in {"p_gen", "p_tts", "p_commit_ai"}) =>
                  ai_content = Concat(frags[t])
           /\ \A i \in RowsOf("assistant", t) :
                  /\ sent = frags[t]
                  /\ messages[i].content = Concat(sent)

\* A reply of two fragments or more has been stored.
C1_Witness ==
    \E t \in 1..MaxTurns :
        /\ Len(frags[t]) >= 2
        /\ RowsOf("assistant", t) # {}

\* C2 as stated: when the transport closed after the generation stream of
\* the turn had started and before the turn completed, no assistant row of
\* that turn is committed and the history gets no assistant entry.
C2_Original ==
    closed_at \in {"reply", "persist"} =>
        /\ RowsOf("assistant", turn) = {}
        /\ LastEntryIs("user")

\* C2, amended: when the transport closed after the generation stream of the
\* turn had started and before the last event of the reply (audio or
\* audio_error) was sent, no assistant row of that turn is committed and
\* the history gets no assistant entry.
C2_CloseBeforeLastEvent ==
    closed_at = "reply" =>
        /\ RowsOf("assistant", turn) = {}
        /\ LastEntryIs("user")
        /\ pc \in {"p_gen", "p_tts", "returned"}

\* The transport closed during the reply and the handler has returned.
C2_Witness ==
    /\ closed_at = "reply"
    /\ pc = "returned"
    /\ frags[turn] # <<>>

\* What C3 says of the stages after a generation failure.
C3_Aborted ==
    /\ calls \cap {"clean", "synthesize"} = {}
    /\ RowsOf("assistant", turn) = {}
    /\ LastEntryIs("user")
    /\ StreamPayloads(turn) = frags[turn]
    /\ pc = "returned"

HasErrorEvent == SelectEvents(wire[SELF], "error", turn) # <<>>

\* C3 as stated: when the generation stream raises, no synthesis is
\* attempted, no assistant row is committed, the history gets no assistant
\* entry, an error message is sent, and the text_stream events already sent
\* stay sent.
C3_Original == exc = "generation" => C3_Aborted /\ HasErrorEvent

\* C3, amended: as stated, the error message being sent provided the
\* session's transport is still open when the stream raises.
C3_GenerationFailureAborts ==
    exc = "generation" => C3_Aborted /\ (sock[SELF] = "open" => HasErrorEvent)

\* The stream raised after a fragment, on an open transport.
C3_Witness ==
    /\ exc = "generation"
    /\ frags[turn] # <<>>
    /\ sock[SELF] = "open"
    /\ HasErrorEvent

\* C4: a turn-fatal failure (the generation stream raising, a malformed
\* client message) aborts only the turn: the session stays registered and
\* the handler has not returned.
C4_SessionStaysOpen ==
    exc \in {"generation", "malformed"} =>
        SELF \in active_connections /\ pc # "returned"

\* C5: a failed knowledge search degrades to an empty chunk list; no
\* exception leaves the turn because of it.
C5_SearchFailureDegrades ==
    search_failed => exc # "search" /\ retrieved_chunks = <<>>

\* C6: send_message never raises to its caller; no exception of a send
\* leaves the handler's try block.
C6_SendNeverRaises == exc # "send"

\* C7: a send_message for a session id that is not registered changes no
\* transport, raises nothing and leaves the registry as it is.
C7_UnregisteredSendIsNoOp ==
    [][(last_call'.op = "send" /\ last_call'.sid \notin active_connections) =>
          /\ wire' = wire
          /\ ~last_call'.raised
          /\ active_connections' = active_connections]_vars

\* send_message was called for an id that was registered, was sent to, and
\* is registered no more, its transport still open.
C7_Witness ==
    /\ last_call.op = "send"
    /\ last_call.sid \notin active_connections
    /\ sock[last_call.sid] = "open"
    /\ wire[last_call.sid] # <<>>

\* C8: once the handler has returned, on any exit path, the session id is
\* not in the registry; it is in the registry only between connect and the
\* teardown.
C8_UnregisteredOnReturn ==
    /\ pc = "returned" => SELF \notin active_connections
    /\ pc = "start" => SELF \notin active_connections
    /\ pc \notin {"start", "returned"} => SELF \in active_connections

\* The handler has returned after a failed send of the error message.
C8_Witness ==
    /\ pc = "returned"
    /\ exc \in {"load", "send", "generation", "malformed", "search"}
    /\ sock[SELF] = "closed"
    /\ ~HasErrorEvent

\* The rows the session found in the conversation and loaded (the last 10),
\* and the rows it committed itself.
LoadedRows == LastN(SelectSeq(messages, LAMBDA m : m.turn = 0), HistoryLimit)
SessionRows == SelectSeq(messages, LAMBDA m : m.turn > 0)
EntriesOf(rows) == [i \in 1..Len(rows) |-> Entry(rows[i].role, rows[i].content)]

\* An audio message whose transcription came out empty is being handled.
EmptyTranscription ==
    /\ data.type = "audio"
    /\ "transcribe" \in calls
    /\ transcript.text = NoText

\* C9: when the transcription of an audio message is the empty string, no
\* user row is committed for the turn, the history gets no entry, no
\* summarization, retrieval or generation call is made, and the loop goes
\* back to receive_json (unless a send failed on a closed transport).
C9_EmptyTranscriptionSkipsTurn ==
    EmptyTranscription =>
        /\ user_content = NoText
        /\ RowsOf("user", turn) = {}
        /\ RowsOf("assistant", turn) = {}
        /\ message_history = EntriesOf(LoadedRows \o SessionRows)
        /\ calls \cap {"summarize", "search", "generate"} = {}
        /\ frags[turn] = <<>>
        /\ pc \in {"upload_user", "recv", "returned"}
        /\ pc = "returned" => exc \in {"send", "disconnect"}

\* The loop is back at receive_json after an empty transcription.
C9_Witness ==
    /\ EmptyTranscription
    /\ pc = "recv"
    /\ sock[SELF] = "open"

\* C10: every failure mode of the transcription (an exception, the model not
\* loaded) yields the empty string, so that the audio message produces no
\* user turn and no generation.
C10_FailureYieldsEmpty ==
    transcript.failure \in {"exception", "no_model"} =>
        /\ transcript.text = NoText
        /\ RowsOf("user", turn) = {}
        /\ "generate" \notin calls
\* The text the correction service was given in the current turn.
RawInput == IF data.type = "text" THEN data.content ELSE transcript.text

\* The texts the handler may hand to correct_text.
CorrectionInputs == RawTexts \cup {SttUnavailable} \cup {Strip(t) : t \in SttOutputs}

\* C11: when the correction call raises, correct_text returns the raw text
\* unchanged, whether or not a context (the last assistant entry of the
\* history) was passed, and the turn goes on with the raw text as the user
\* content: it is what the transcription event and the user row carry.
C11_CorrectionFailureKeepsRaw ==
    /\ \A raw \in CorrectionInputs :
           correct_text(raw, [ok |-> FALSE, text |-> NoText]) = raw
    /\ "correct" \in failures =>
           /\ user_content = RawInput
           /\ \A i \in RowsOf("user", turn) : messages[i].content = RawInput
           /\ \/ exc = "send"
              \/ \E i \in DOMAIN wire[SELF] :
                     /\ wire[SELF][i].type = "transcription"
                     /\ wire[SELF][i].turn = turn
                     /\ wire[SELF][i].content = RawInput
           /\ RawInput # NoText => pc \notin {"recv", "normalize"}
           /\ exc \in {"none", "send", "search", "generation", "disconnect"}

\* The correction raised with a context present, and the raw text was
\* committed as the user row.
C11_Witness ==
    /\ "correct" \in failures
    /\ RowsOf("user", turn) # {}
    /\ Len(message_history) >= 3
    /\ message_history[Len(message_history) - 1].role = "assistant"
\* pat occurs in text
Contains(text, pat) ==
    \E i \in 0..(Len(text) - Len(pat)) : SubSeq(text, i + 1, i + Len(pat)) = pat

\* The character has retrieval disabled, or enabled with no linked document.
NoRetrieval == ~character.use_knowledge_base \/ linked_documents = "none"

\* C12: for a character with retrieval disabled, or enabled without linked
\* knowledge documents, the chunk list of the turn is empty, no knowledge
\* search is issued, and the system prompt contains neither the retrieval
\* preamble nor the retrieval block header.
C12_NoRetrievalNoBlock ==
    NoRetrieval =>
        /\ retrieved_chunks = <<>>
        /\ "search" \notin calls
        /\ ~search_failed
        /\ ~Contains(enhanced_prompt, RetrievalPreamble)
        /\ ~Contains(enhanced_prompt, RetrievalHeader)

\* A prompt with a summary block was handed to the generator for a
\* character with retrieval enabled and no linked document.
C12_Witness ==
    /\ character.use_knowledge_base
    /\ linked_documents = "none"
    /\ "generate" \in calls
    /\ Contains(enhanced_prompt, SummaryHeader)
\* The summarization LLM call failed in the current turn.
SummaryFailed == "summarize" \in failures

\* The summary block of a prompt whose summary is text.
SummaryBlock(text) == BlankLine \o SummaryHeader \o text

\* The turn goes on after a failed summarization: nothing leaves the try
\* block because of it, and what the summary is goes into the prompt.
C13_TurnGoesOn(text) ==
    /\ pc \in {"p_rag", "p_commit_user", "p_gen", "p_tts", "p_commit_ai"} =>
           context_summary = text
    /\ pc \in {"p_gen", "p_tts", "p_commit_ai"} =>
           Contains(enhanced_prompt, SummaryBlock(text))
    /\ \A i \in RowsOf("assistant", turn) : messages[i].context_prompt = text
    /\ exc \in {"none", "send", "search", "generation", "disconnect"}

C14_SummaryCapped ==
    service_call.fn = "generate_context_summary" =>
        LET recent == service_call.recent
            o == service_call.outcome
            generated == Strip(o.text)
            result == service_call.result
        IN /\ Len(result) <= 1000
           /\ recent = <<>> => result = NoText
           /\ (recent # <<>> /\ o.ok /\ Len(generated) > 1000) =>
                  /\ Len(result) = 1000
                  /\ \A i \in 1..997 : result[i] = generated[i]
                  /\ \A i \in 998..1000 : result[i] = "."
           /\ (recent # <<>> /\ o.ok /\ Len(generated) <= 1000) => result = generated
           /\ (recent # <<>> /\ ~o.ok) => result = AgentFailureText

\* A summary generated longer than the limit came back cut.
C14_Witness ==
    /\ service_call.fn = "generate_context_summary"
    /\ service_call.outcome.ok
    /\ Len(service_call.outcome.text) > 1000
    /\ Len(service_call.result) = 1000
\* The retrieval block of a prompt for a list of chunks.
RetrievalBlock(chunks) == BlankLine \o RetrievalHeader \o build_context_prompt(chunks)

\* C15: the system prompt handed to the generator is the character template,
\* then the retrieval block if and only if retrieval returned a chunk, then
\* the summary block if and only if the summary is not empty, in that order,
\* each block after a blank line; an absent part adds nothing.
C15_PromptComposition ==
    "generate" \in calls =>
        /\ enhanced_prompt =
               character.prompt_template
               \o (IF retrieved_chunks # <<>> THEN RetrievalBlock(retrieved_chunks) ELSE <<>>)
               \o (IF context_summary # NoText THEN SummaryBlock(context_summary) ELSE <<>>)
        /\ Contains(enhanced_prompt, RetrievalHeader) <=> retrieved_chunks # <<>>
        /\ Contains(enhanced_prompt, SummaryHeader) <=> context_summary # NoText
        /\ (retrieved_chunks = <<>> /\ context_summary = NoText) =>
               enhanced_prompt = character.prompt_template

\* A prompt with both blocks was handed to the generator.
C15_Witness ==
    /\ "generate" \in calls
    /\ retrieved_chunks # <<>>
    /\ context_summary # NoText
    /\ Contains(enhanced_prompt, RetrievalBlock(retrieved_chunks) \o SummaryBlock(context_summary))
\* An event speaks of the reply: its audio, or the failure of its audio.
IsReplyAudio(e) == (e.type = "audio" /\ e.url = "url_ai") \/ e.type = "audio_error"

\* The place of an event in the order of its turn.
StageOf(e) ==
    CASE e.type = "transcription" -> 1
      [] e.type = "audio" /\ e.url = "url_user" -> 2
      [] e.type = "text_stream" -> 3
      [] IsReplyAudio(e) -> 4
      [] e.type = "error" -> 5
      [] OTHER -> 0

\* C16: the outbound events of a turn keep a fixed order: the transcription
\* event comes before every text_stream event of the reply, every audio or
\* audio_error event of the reply comes after all the text_stream events of
\* the reply, and no text_stream event follows an audio event of the reply.
\* The events of a session are sent turn after turn, so the order holds
\* between any two events of a turn when it holds between neighbours.
C16_EventOrder ==
    LET w == wire[SELF]
    IN /\ \A j \in 2..Len(w) :
              \/ w[j - 1].turn < w[j].turn
              \/ w[j - 1].turn = w[j].turn /\ StageOf(w[j - 1]) <= StageOf(w[j])
       /\ \A j \in DOMAIN w :
              /\ w[j].type = "text_stream" =>
                     \E i \in 1..(j - 1) :
                         w[i].type = "transcription" /\ w[i].turn = w[j].turn
              /\ IsReplyAudio(w[j]) => StreamPayloads(w[j].turn) = frags[w[j].turn]

\* A turn sent its transcription, two text_stream events and the audio of
\* the reply.
C16_Witness ==
    \E t \in 1..MaxTurns :
        /\ SelectEvents(wire[SELF], "transcription", t) # <<>>
        /\ Len(SelectEvents(wire[SELF], "text_stream", t)) >= 2
        /\ \E j \in DOMAIN wire[SELF] :
               wire[SELF][j].turn = t /\ wire[SELF][j].type = "audio"
               /\ wire[SELF][j].url = "url_ai"
\* The audio_stream events of turn t.
AudioStreamEvents(t) == SelectEvents(wire[SELF], "audio_stream", t)

\* C17: speech is synthesized sentence by sentence while the reply is being
\* generated: for a reply of two sentences or more (each fragment of the
\* model standing for a sentence) there is one audio_stream event per
\* sentence, and the first of them is sent before the last text_stream
\* event of the reply.
C17_IncrementalSynthesis ==
    \A t \in 1..MaxTurns :
        (Len(frags[t]) >= 2 /\ RowsOf("assistant", t) # {}) =>
            /\ Len(AudioStreamEvents(t)) = Len(frags[t])
            /\ \E i, j \in DOMAIN wire[SELF] :
                   /\ i < j
                   /\ wire[SELF][i].type = "audio_stream" /\ wire[SELF][i].turn = t
                   /\ wire[SELF][j].type = "text_stream" /\ wire[SELF][j].turn = t

\* The synthesis engine or the upload of the reply's audio failed.
TtsFailed == "tts" \in failures

HasAudioError == SelectEvents(wire[SELF], "audio_error", turn) # <<>>

\* The assistant row of the turn carries the whole reply and no audio URL.
TextOnlyRowCommitted ==
    /\ RowsOf("assistant", turn) # {}
    /\ \A i \in RowsOf("assistant", turn) :
           /\ messages[i].content = Concat(frags[turn])
           /\ messages[i].audio_url = None

\* The turn ends as a turn without audio: the audio_error event is sent, the
\* reply is committed, or about to be, with its whole text and no audio
\* URL, and the handler goes back to receive_json.
TextDelivered ==
    /\ StreamPayloads(turn) = frags[turn]
    /\ HasAudioError
    /\ \/ pc = "p_commit_ai" /\ ai_content = Concat(frags[turn]) /\ ai_audio_url = None
       \/ pc = "recv" /\ TextOnlyRowCommitted /\ SELF \in active_connections
       \/ pc = "returned" /\ TextOnlyRowCommitted /\ exc = "disconnect"

\* C18 as stated: a failure of the symbol cleaning, of the synthesis engine
\* or of the upload does not fail text delivery: every text_stream event
\* has been sent, an audio_error event is sent, the assistant row is
\* committed with the whole text and no audio URL, the session stays open.
C18_Original ==
    failures \cap {"clean", "tts"} # {} => TextDelivered

\* C18, amended: a failure of the synthesis engine or of the upload does
\* not fail text delivery, provided the transport is still open when the
\* audio_error event is sent (else the failed send ends the session with
\* no assistant row); a failure of the cleaning LLM call alone is absorbed:
\* the synthesis goes on and no audio_error event is sent.
C18_SynthesisFailureKeepsText ==
    /\ TtsFailed =>
           /\ StreamPayloads(turn) = frags[turn]
           /\ \/ TextDelivered
              \/ /\ exc = "send" /\ pc = "returned" /\ closed_at \in {"input", "reply"}
                 /\ ~HasAudioError
                 /\ RowsOf("assistant", turn) = {}
    /\ ("clean" \in failures /\ ~TtsFailed) =>
           /\ ~HasAudioError
           /\ exc \in {"none", "send", "disconnect"}
           /\ exc = "send" => closed_at \in {"input", "reply"}
           /\ exc = "none" => pc = "p_commit_ai" /\ ai_audio_url = "url_ai"

\* The reply was committed without audio after a synthesis failure, the
\* session still open.
C18_Witness ==
    /\ TtsFailed
    /\ pc = "recv"
    /\ TextOnlyRowCommitted
    /\ frags[turn] # <<>>
    /\ HasAudioError
    /\ sock[SELF] = "open"

\* C19: the audio of the reply is uploaded only after the generation stream
\* has ended, and the assistant row carries an audio URL if and only if an
\* audio event with that URL was sent to the session for that reply.
C19_AudioUrlMatchesEvent ==
    /\ pc \in {"p_gen", "p_tts"} =>
           ai_audio_url = None /\ calls \cap {"clean", "synthesize"} = {}
    /\ \A i \in DOMAIN messages :
           messages[i].role = "assistant" =>
               /\ messages[i].audio_url # None =>
                      \E j \in DOMAIN wire[SELF] :
                          /\ wire[SELF][j].type = "audio"
                          /\ wire[SELF][j].turn = messages[i].turn
                          /\ wire[SELF][j].url = messages[i].audio_url
               /\ \A j \in DOMAIN wire[SELF] :
                      (wire[SELF][j].turn = messages[i].turn /\ wire[SELF][j].type = "audio"
                       /\ wire[SELF][j].url # "url_user") =>
                          messages[i].audio_url = wire[SELF][j].url

\* An assistant row carries the URL an audio event of its turn carried.
C19_Witness ==
    \E t \in 1..MaxTurns : \E i \in RowsOf("assistant", t) :
        /\ messages[i].audio_url = "url_ai"
        /\ frags[t] # <<>>
\* C20: when the generated text contains an emotion marker, the text handed
\* to the reference-voice engine contains no part of the marker, and the
\* inner text of the marker is passed apart as the emotion directive.
C20_MarkerStripped ==
    (service_call.fn = "synthesize_from_character" /\ HasMarker(service_call.text)) =>
        LET d == DelimiterPositions(service_call.text, 1)
        IN /\ ~HasMarker(service_call.request.text)
           /\ service_call.request.text = Strip(RemoveMarkers(service_call.text))
           /\ service_call.request.emo_text = SubSeq(service_call.text, d[1] + 1, d[2] - 1)
\* The characters of a text that are in the markup set of line 139.
MarkupIn(text) == {text[i] : i \in DOMAIN text} \cap SpecialSymbols

\* C21: a text without markup characters is handed to the synthesizer
\* unchanged and without a cleaning call; when the cleaning call fails, the
\* text handed over is the input with every markup character removed and
\* every other character kept in place; in both cases the spoken text holds
\* no markup character.
C21_CleanedBeforeSynthesis ==
    service_call.fn = "clean_text_for_tts" =>
        LET text == service_call.text
            spoken == service_call.spoken
            kept == {i \in DOMAIN text : text[i] \notin SpecialSymbols}
        IN /\ MarkupIn(text) = {} =>
                  /\ spoken = text
                  /\ ~service_call.llm_called
           /\ (MarkupIn(text) # {} /\ ~service_call.outcome.ok) =>
                  /\ service_call.llm_called
                  /\ Len(spoken) = Cardinality(kept)
                  /\ \A i \in kept :
                         spoken[Cardinality({j \in kept : j <= i})] = text[i]
           /\ (MarkupIn(text) = {} \/ ~service_call.outcome.ok) => MarkupIn(spoken) = {}

\* The cleaning call failed on a text that mixes markup and other characters.
C21_Witness ==
    /\ service_call.fn = "clean_text_for_tts"
    /\ ~service_call.outcome.ok
    /\ MarkupIn(service_call.text) # {}
    /\ service_call.spoken # NoText
    /\ Len(service_call.spoken) < Len(service_call.text)
Live(s) == sessions[s].pc \notin {"none", "returned"}

\* C23: at any time at most one live session is bound to a conversation, and
\* no row of another session lies between two rows of one turn of a
\* conversation.
C23_SingleWriterPerConversation ==
    /\ \A s, t \in SessionIds :
           (s # t /\ Live(s) /\ Live(t)) =>
               sessions[s].conversation_id # sessions[t].conversation_id
    /\ \A i, j, k \in DOMAIN table :
           (/\ i < j /\ j < k
            /\ table[i].conversation_id = table[j].conversation_id
            /\ table[i].conversation_id = table[k].conversation_id
            /\ table[i].sid = table[k].sid /\ table[i].turn = table[k].turn) =>
               table[j].sid = table[i].sid
\* A client message has been received and its turn has not ended.
InTurn == pc \notin {"start", "load", "recv", "returned"}

\* C24: every client message that starts a turn eventually ends it, with the
\* assistant row committed or with the turn or the session failed, even when
\* an external call never answers.
C24_TurnEnds == InTurn ~> (pc \in {"recv", "returned"})
\* C25: a load_history message is answered with a history event (of at
\* most 20 older turns) and starts no generation: when the handler is back
\* at receive_json, a history event of that turn has been sent and no row of
\* the turn exists.
C25_LoadHistoryAnswered ==
    (data.type = "load_history" /\ pc = "recv") =>
        /\ SelectEvents(wire[SELF], "history", turn) # <<>>
        /\ "generate" \notin calls
        /\ RowsOf("user", turn) = {} /\ RowsOf("assistant", turn) = {}
\* C26: with the reference-voice engine selected, the dispatch reaches the
\* engine, and when its backend answers successfully (and the upload
\* succeeds) the turn sends an audio event, not an audio_error event.
C26_ReferenceEngineReached ==
    (/\ service_call.fn = "tts_synthesize"
     /\ service_call.engine = "indextts2"
     /\ service_call.backend_ok /\ service_call.upload_ok) =>
        /\ service_call.reached
        /\ ~service_call.raised
        /\ service_call.event = "audio"
\* C27: the recent messages summarized for a turn include the user message
\* the client just sent in that turn.
C27_SummaryIncludesUserMessage ==
    "summarize" \in calls => <<"user", turn>> \in summarized
\* C28: two turns that differ only in the need_audio of the client message
\* (true, false or absent) attempt the synthesis alike, send the same events
\* after the text and store the same audio URL.
C28_NeedAudioIgnored ==
    service_call.fn = "audio_step" =>
        /\ service_call.results[1] = service_call.results[2]
        /\ service_call.results[1].attempted /\ service_call.results[2].attempted

\* A turn asking for audio and a turn asking for none both sent the audio.
C28_Witness ==
    /\ service_call.fn = "audio_step"
    /\ service_call.flags = <<"true", "false">>
    /\ service_call.results[2].events = <<"audio">>
\* The reply of the turn was sent whole and its audio step is over.
AudioStepDone ==
    \/ SelectEvents(wire[SELF], "audio_error", turn) # <<>>
    \/ \E i \in DOMAIN wire[SELF] :
           /\ wire[SELF][i].type = "audio" /\ wire[SELF][i].turn = turn
           /\ wire[SELF][i].url = "url_ai"

\* C29: whenever the handler is suspended, the entries it appended to its
\* history are, in order, the (role, content) of the rows it committed.  The
\* user row is committed and appended before the generation starts, the
\* assistant row only after the audio step, so a turn that fails in between
\* leaves a user row and no assistant row, in the table and in the history.
C29_HistoryMatchesRows ==
    LET loaded == Len(LoadedRows)
        session == SessionRows
        user_rows == RowsOf("user", turn)
        assistant_rows == RowsOf("assistant", turn)
    IN /\ (pc \notin {"start", "load"} /\ exc # "load") =>
              /\ Len(message_history) = loaded + Len(session)
              /\ SubSeq(message_history, loaded + 1, Len(message_history))
                     = EntriesOf(session)
       /\ \A i \in DOMAIN session :
              session[i].role = "assistant" =>
                  /\ i > 1
                  /\ session[i - 1].role = "user"
                  /\ session[i - 1].turn = session[i].turn
       /\ pc \in {"p_gen", "p_tts", "p_commit_ai"} =>
              /\ user_rows # {} /\ assistant_rows = {}
              /\ LastEntryIs("user")
       /\ (turn > 0 /\ assistant_rows # {}) =>
              AudioStepDone /\ pc \in {"recv", "returned"}
       /\ (/\ pc = "returned" /\ exc \in {"generation", "send"}
           /\ turn > 0 /\ user_rows # {}) =>
              /\ assistant_rows = {}
              /\ LastEntryIs("user")
              /\ message_history[Len(message_history)].content = user_content

\* The generation failed after the user row was committed: the history ends
\* with the user entry the session appended.
C29_Witness ==
    /\ pc = "returned" /\ exc = "generation"
    /\ RowsOf("user", turn) # {} /\ RowsOf("assistant", turn) = {}
    /\ frags[turn] # <<>>
    /\ Len(message_history) = Len(LoadedRows) + 1
    /\ LastEntryIs("user")
\* C30: when process_document returns, every chunk the splitter produced
\* has been saved once with its own index: the indices saved are 0, 1, ...
\* up to the number of chunks, and the saved count is the total count.
C30_EveryChunkSaved ==
    (service_call.fn = "process_document" /\ service_call.returned) =>
        LET r == service_call.st
        IN /\ r.saved = [i \in 1..r.total_chunks |-> i - 1]
           /\ r.saved_chunks = r.total_chunks
           /\ r.chunk_objects = <<>>
====
